---- MODULE Spec2Model ----
(***************************************************************************)
(* Ledger engine of audit_app.py: a header row, site columns, transaction   *)
(* rows and a trailing TOTAL row kept in one remote worksheet (SHEET).      *)
(* Every remote call of an operation is one step, so that a failing call    *)
(* and the state it leaves behind are visible.  Cells are the strings the   *)
(* worksheet returns when read; numbers are written in decimal.             *)
(* Python lists are 0-based, the sequences below are 1-based: an index i of *)
(* the source is i + 1 here.                                                *)
(***************************************************************************)
EXTENDS Integers, Sequences, FiniteSets, TLC

(***************************************************************************)
(* Bounds of the model.                                                     *)
(***************************************************************************)
\* transaction rows appended in one behaviour
MaxTxns == 2

(***************************************************************************)
(* Strings: str.strip, str.upper, float(), datetime.strptime.               *)
(***************************************************************************)
Max(a, b) == IF a >= b THEN a ELSE b

RECURSIVE LStrip(_)
LStrip(s) ==
    IF Len(s) > 0 /\ SubSeq(s, 1, 1) = " " THEN LStrip(SubSeq(s, 2, Len(s))) ELSE s

RECURSIVE RStrip(_)
RStrip(s) ==
    IF Len(s) > 0 /\ SubSeq(s, Len(s), Len(s)) = " "
    THEN RStrip(SubSeq(s, 1, Len(s) - 1))
    ELSE s

\* str.strip()
Strip(s) == RStrip(LStrip(s))

Lower == <<"a","b","c","d","e","f","g","h","i","j","k","l","m",
           "n","o","p","q","r","s","t","u","v","w","x","y","z">>
Caps  == <<"A","B","C","D","E","F","G","H","I","J","K","L","M",
           "N","O","P","Q","R","S","T","U","V","W","X","Y","Z">>

UpperChar(c) ==
    IF \E i \in 1..Len(Lower) : Lower[i] = c
    THEN Caps[CHOOSE i \in 1..Len(Lower) : Lower[i] = c]
    ELSE c

RECURSIVE Upper(_)
\* str.upper()
Upper(s) ==
    IF Len(s) = 0 THEN ""
    ELSE UpperChar(SubSeq(s, 1, 1)) \o Upper(SubSeq(s, 2, Len(s)))

Digits == <<"0","1","2","3","4","5","6","7","8","9">>

IsDigit(c) == \E i \in 1..Len(Digits) : Digits[i] = c
DigitVal(c) == (CHOOSE i \in 1..Len(Digits) : Digits[i] = c) - 1

IsDigits(s) == Len(s) > 0 /\ \A i \in 1..Len(s) : IsDigit(SubSeq(s, i, i))

RECURSIVE ParseNat(_)
ParseNat(s) ==
    IF Len(s) = 0 THEN 0
    ELSE 10 * ParseNat(SubSeq(s, 1, Len(s) - 1)) + DigitVal(SubSeq(s, Len(s), Len(s)))

\* float(text) succeeds.  The numerals of the model are decimal integers with
\* an optional sign; float() strips surrounding whitespace itself.
FloatOK(text) ==
    LET t == Strip(text) IN
    IF Len(t) > 0 /\ SubSeq(t, 1, 1) \in {"-", "+"}
    THEN IsDigits(SubSeq(t, 2, Len(t)))
    ELSE IsDigits(t)

\* float(text), when FloatOK(text)
Float(text) ==
    LET t == Strip(text) IN
    IF SubSeq(t, 1, 1) = "-" THEN 0 - ParseNat(SubSeq(t, 2, Len(t)))
    ELSE IF SubSeq(t, 1, 1) = "+" THEN ParseNat(SubSeq(t, 2, Len(t)))
    ELSE ParseNat(t)

RECURSIVE FormatNat(_)
FormatNat(n) ==
    IF n < 10 THEN Digits[n + 1] ELSE FormatNat(n \div 10) \o Digits[(n % 10) + 1]

\* the text the worksheet shows for a number written into a cell
FormatNum(n) == IF n < 0 THEN "-" \o FormatNat(0 - n) ELSE FormatNat(n)

\* position of the first "-" at or after position i, 0 when there is none
RECURSIVE FindDash(_, _)
FindDash(s, i) ==
    IF i > Len(s) THEN 0
    ELSE IF SubSeq(s, i, i) = "-" THEN i
    ELSE FindDash(s, i + 1)

IsLeap(y) == (y % 4 = 0 /\ y % 100 # 0) \/ y % 400 = 0

DaysIn(y, m) ==
    IF m = 2 THEN (IF IsLeap(y) THEN 29 ELSE 28)
    ELSE IF m \in {4, 6, 9, 11} THEN 30
    ELSE 31

\* datetime.strptime(date, '%Y-%m-%d') succeeds: a 4-digit year, a month of
\* one or two digits in 1..12, a day of one or two digits that the month has.
DateOK(date) ==
    LET d1 == FindDash(date, 1)
        d2 == IF d1 = 0 THEN 0 ELSE FindDash(date, d1 + 1)
        ys == SubSeq(date, 1, d1 - 1)
        ms == SubSeq(date, d1 + 1, d2 - 1)
        ds == SubSeq(date, d2 + 1, Len(date))
    IN  /\ d1 # 0
        /\ d2 # 0
        /\ Len(ys) = 4 /\ IsDigits(ys)
        /\ Len(ms) \in {1, 2} /\ IsDigits(ms)
        /\ Len(ds) \in {1, 2} /\ IsDigits(ds)
        /\ ParseNat(ms) \in 1..12
        /\ ParseNat(ds) \in 1..DaysIn(ParseNat(ys), ParseNat(ms))

(***************************************************************************)
(* The worksheet (gspread Worksheet): a sequence of rows of string cells.   *)
(* A stored row carries no trailing blank cell and the sheet no trailing    *)
(* blank row, as the remote service reports them.                           *)
(***************************************************************************)
Blanks(n) == [i \in 1..n |-> ""]

RECURSIVE TrimRow(_)
TrimRow(row) ==
    IF Len(row) > 0 /\ row[Len(row)] = "" THEN TrimRow(SubSeq(row, 1, Len(row) - 1))
    ELSE row

RECURSIVE DropBlankRows(_)
DropBlankRows(sh) ==
    IF Len(sh) > 0 /\ sh[Len(sh)] = <<>> THEN DropBlankRows(SubSeq(sh, 1, Len(sh) - 1))
    ELSE sh

Normalize(sh) == DropBlankRows([i \in 1..Len(sh) |-> TrimRow(sh[i])])

RECURSIVE Width(_)
Width(sh) == IF Len(sh) = 0 THEN 0 ELSE Max(Len(sh[1]), Width(Tail(sh)))

Pad(row, w) == row \o Blanks(w - Len(row))

\* SHEET.get_all_values(): every row, padded to the width of the widest
get_all_values(sh) == [i \in 1..Len(sh) |-> Pad(sh[i], Width(sh))]

\* SHEET.row_values(r): the cells of row r up to its last non-blank one
row_values(sh, r) == IF r <= Len(sh) THEN sh[r] ELSE <<>>

\* SHEET.insert_row(values, index)
insert_row(sh, values, index) ==
    Normalize(SubSeq(sh, 1, index - 1) \o <<values>> \o SubSeq(sh, index, Len(sh)))

\* SHEET.update('A1', [values]): writes Len(values) cells of row 1 from column A
update_A1(sh, values) ==
    LET old == row_values(sh, 1)
        new == [i \in 1..Max(Len(values), Len(old)) |->
                    IF i <= Len(values) THEN values[i] ELSE old[i]]
    IN  Normalize(<<new>> \o SubSeq(sh, 2, Len(sh)))

\* SHEET.insert_cols([values], col): a new column at col, the old column col
\* and everything right of it move one to the right
insert_cols(sh, values, col) ==
    Normalize([r \in 1..Max(Len(sh), 1) |->
        LET row  == Pad(row_values(sh, r), col - 1)
            cell == IF r <= Len(values) THEN values[r] ELSE ""
        IN  SubSeq(row, 1, col - 1) \o <<cell>> \o SubSeq(row, col, Len(row))])

\* the header row is not counted: the row above index is deleted
delete_rows_above(sh, index) ==
    IF index > 1 /\ index - 1 <= Len(sh)
    THEN Normalize(SubSeq(sh, 1, index - 2) \o SubSeq(sh, index, Len(sh)))
    ELSE sh

\* SHEET.delete_rows(index)
delete_rows(sh, index) ==
    IF index <= Len(sh)
    THEN Normalize(SubSeq(sh, 1, index - 1) \o SubSeq(sh, index + 1, Len(sh)))
    ELSE sh

\* SHEET.append_row(values)
append_row(sh, values) == Normalize(Append(sh, values))

\* SHEET.row_count: the row extent of the grid
row_count(sh) == Len(sh)

(***************************************************************************)
(* Inputs of the form, and the worksheets the application may be pointed at *)
(***************************************************************************)
default_header == <<"Date", "Description", "Closing Balance">>

InitialSheets ==
    { <<>>,
      << <<"", " ", "", " ">> >>,
      << <<"Ledger">> >>,
      << <<"Date", "Description", "SiteA", "SiteB", "Closing Balance">> >> }

NewSiteInputs == {" Cafe ", "  "}
DateInputs    == {"2024-01-01", "2024-13-01"}
SiteInputs    == {"SiteA", " Cafe ", "Select Site", "Closing Balance"}
DescInputs    == {"rent"}
AmountInputs  == {"100", "-20", "abc"}

Sessions == {1, 2}
\* section 5: each user action runs to completion before the next is accepted
SingleWriter == {1}

VARIABLES
    sheet,      \* SHEET: the remote worksheet
    pc,         \* per session: the remote call the running operation makes next
    loc,        \* per session: the local variables of the running operation
    ret,        \* per session: what the last operation returned, logged or raised
    call,       \* per session: the last call (operation, sheet at its start,
                \*   writes it has made, whether a remote call of it failed,
                \*   whether no other session was inside a call when it started)
    nTxn,       \* transaction rows appended so far
    onlyTxns,   \* the sheet began as a header with a site column and every call
                \*   so far is an add_transaction on a site column that succeeded
    utrAlone    \* update_total_row has been called on its own

vars == <<sheet, pc, loc, ret, call, nTxn, onlyTxns, utrAlone>>

NoLoc == [site |-> "", date |-> "", description |-> "", amount |-> 0,
          header |-> <<>>, rows |-> <<>>, new_row |-> <<>>, caller |-> ""]

NoRet == [msg |-> "", sites |-> <<>>, hasSites |-> FALSE, log |-> "", raised |-> FALSE]

NoCall == [op |-> "", arg |-> <<>>, sheet0 |-> <<>>, writes |-> 0, failed |-> FALSE,
           alone |-> TRUE]

Idle(s) == pc[s] = "idle"

HeaderWithSite(sh) == Len(sh) = 1 /\ Len(sh[1]) >= 4

Init ==
    /\ sheet \in InitialSheets
    /\ pc = [s \in Sessions |-> "idle"]
    /\ loc = [s \in Sessions |-> NoLoc]
    /\ ret = [s \in Sessions |-> NoRet]
    /\ call = [s \in Sessions |-> NoCall]
    /\ nTxn = 0
    /\ onlyTxns = HeaderWithSite(sheet)
    /\ utrAlone = FALSE

\* no session other than s is inside an operation
Alone(s) == \A t \in Sessions \ {s} : pc[t] \in {"idle", "done"}

\* the operation starts: no write made yet, no remote call failed yet
Enter(s, name, a) ==
    /\ Idle(s)
    /\ call' = [call EXCEPT ![s] = [op |-> name, arg |-> a, sheet0 |-> sheet,
                                    writes |-> 0, failed |-> FALSE,
                                    alone |-> Alone(s)]]

\* the operation returns r
Return(s, r) ==
    /\ pc' = [pc EXCEPT ![s] = "done"]
    /\ loc' = [loc EXCEPT ![s] = NoLoc]
    /\ ret' = [ret EXCEPT ![s] = r]

\* a remote call of the operation raised
Fails(s) == call' = [call EXCEPT ![s].failed = TRUE]

\* a mutating remote call of the operation went through
Wrote(s) == call' = [call EXCEPT ![s].writes = @ + 1]

Msg(m) == [NoRet EXCEPT !.msg = m]
Log(l) == [NoRet EXCEPT !.log = l]

(***************************************************************************)
(* ensure_header                                                            *)
(***************************************************************************)
AllBlank(row) == \A i \in 1..Len(row) : Strip(row[i]) = ""

ensure_header_call(s) ==
    /\ Enter(s, "ensure_header", <<>>)
    /\ pc' = [pc EXCEPT ![s] = "eh_read"]
    /\ ret' = [ret EXCEPT ![s] = NoRet]
    /\ onlyTxns' = FALSE
    /\ UNCHANGED <<sheet, loc, nTxn, utrAlone>>

\* rows = SHEET.get_all_values(), and the choice of the write
ensure_header_read(s) ==
    /\ pc[s] = "eh_read"
    /\ \E ok \in BOOLEAN :
        IF ~ok
        THEN Fails(s) /\ Return(s, Log("Error initializing header"))
        ELSE LET rows == get_all_values(sheet) IN
             /\ UNCHANGED call
             /\ IF rows = <<>>
                THEN pc' = [pc EXCEPT ![s] = "eh_insert"] /\ UNCHANGED <<loc, ret>>
                ELSE IF AllBlank(rows[1])
                THEN pc' = [pc EXCEPT ![s] = "eh_update"] /\ UNCHANGED <<loc, ret>>
                ELSE Return(s, NoRet)
    /\ UNCHANGED <<sheet, nTxn, onlyTxns, utrAlone>>

\* SHEET.insert_row(default_header, index=1)
ensure_header_insert(s) ==
    /\ pc[s] = "eh_insert"
    /\ \E ok \in BOOLEAN :
        IF ~ok
        THEN Fails(s) /\ Return(s, Log("Error initializing header")) /\ UNCHANGED sheet
        ELSE /\ sheet' = insert_row(sheet, default_header, 1)
             /\ Wrote(s)
             /\ Return(s, NoRet)
    /\ UNCHANGED <<nTxn, onlyTxns, utrAlone>>

\* SHEET.update('A1', [default_header])
ensure_header_update(s) ==
    /\ pc[s] = "eh_update"
    /\ \E ok \in BOOLEAN :
        IF ~ok
        THEN Fails(s) /\ Return(s, Log("Error initializing header")) /\ UNCHANGED sheet
        ELSE /\ sheet' = update_A1(sheet, default_header)
             /\ Wrote(s)
             /\ Return(s, NoRet)
    /\ UNCHANGED <<nTxn, onlyTxns, utrAlone>>

ensure_header(s) ==
    \/ ensure_header_call(s)
    \/ ensure_header_read(s)
    \/ ensure_header_insert(s)
    \/ ensure_header_update(s)

(***************************************************************************)
(* add_site                                                                 *)
(***************************************************************************)
Contains(seq, x) == \E i \in 1..Len(seq) : seq[i] = x

\* list.index(x), 0-based as in the source
index(seq, x) == (CHOOSE i \in 1..Len(seq) : seq[i] = x /\ \A j \in 1..(i - 1) : seq[j] # x) - 1

\* header[2:-1]
Sites(header) == SubSeq(header, 3, Len(header) - 1)

\* the duplicate check left out
Duplicate_unchecked(header, new_site) == FALSE

\* if new_site in header
Duplicate(header, new_site) == Contains(header, new_site)

\* off by one: the column right of "Closing Balance"
closing_index_after(header) == index(header, "Closing Balance") + 2

\* the first site column instead of the column of "Closing Balance"
closing_index_first(header) == 3

\* closing_index = header.index("Closing Balance") + 1
closing_index(header) == index(header, "Closing Balance") + 1

add_site_call(s) ==
    \E new_site_input \in NewSiteInputs :
        LET new_site == Strip(new_site_input) IN
        /\ Enter(s, "add_site", <<new_site_input>>)
        /\ onlyTxns' = FALSE
        /\ IF new_site = ""
           THEN Return(s, [NoRet EXCEPT !.msg = "Enter a site name first"])
           ELSE /\ pc' = [pc EXCEPT ![s] = "as_header"]
                /\ ret' = [ret EXCEPT ![s] = NoRet]
                /\ loc' = [loc EXCEPT ![s] = [NoLoc EXCEPT !.site = new_site]]
        /\ UNCHANGED <<sheet, nTxn, utrAlone>>

\* header = SHEET.row_values(1), outside the try block; then the duplicate
\* check and the search for "Closing Balance"
add_site_header(s) ==
    /\ pc[s] = "as_header"
    /\ \E ok \in BOOLEAN :
        IF ~ok
        THEN Fails(s) /\ Return(s, [NoRet EXCEPT !.raised = TRUE])
        ELSE LET header == row_values(sheet, 1) IN
             /\ UNCHANGED call
             /\ IF Duplicate(header, loc[s].site)
                THEN Return(s, [NoRet EXCEPT !.msg = "Site already exists",
                                             !.hasSites = TRUE,
                                             !.sites = IF Len(header) >= 4
                                                       THEN Sites(header) ELSE <<>>])
                ELSE IF ~Contains(header, "Closing Balance")
                THEN Return(s, Msg("'Closing Balance' column not found"))
                ELSE /\ pc' = [pc EXCEPT ![s] = "as_insert"]
                     /\ loc' = [loc EXCEPT ![s].header = header]
                     /\ UNCHANGED ret
    /\ UNCHANGED <<sheet, nTxn, onlyTxns, utrAlone>>

\* SHEET.insert_cols(values_to_insert, col=closing_index)
add_site_insert(s) ==
    /\ pc[s] = "as_insert"
    /\ \E ok \in BOOLEAN :
        IF ~ok
        THEN /\ Fails(s) /\ Return(s, Msg("Failed to add site"))
             /\ UNCHANGED sheet
        ELSE LET values_to_insert == <<loc[s].site>> \o Blanks(row_count(sheet) - 1)
             IN  /\ sheet' = insert_cols(sheet, values_to_insert, closing_index(loc[s].header))
                 /\ Wrote(s)
                 /\ pc' = [pc EXCEPT ![s] = "as_sites"]
                 /\ UNCHANGED <<loc, ret>>
    /\ UNCHANGED <<nTxn, onlyTxns, utrAlone>>

\* updated_sites = tuple(SHEET.row_values(1)[2:-1])
add_site_sites(s) ==
    /\ pc[s] = "as_sites"
    /\ \E ok \in BOOLEAN :
        IF ~ok
        THEN Fails(s) /\ Return(s, Msg("Failed to add site"))
        ELSE /\ UNCHANGED call
             /\ Return(s, [NoRet EXCEPT !.msg = "Site added", !.hasSites = TRUE,
                                        !.sites = Sites(row_values(sheet, 1))])
    /\ UNCHANGED <<sheet, nTxn, onlyTxns, utrAlone>>

add_site(s) ==
    \/ add_site_call(s)
    \/ add_site_header(s)
    \/ add_site_insert(s)
    \/ add_site_sites(s)

(***************************************************************************)
(* update_total_row                                                         *)
(***************************************************************************)
\* the trailing TOTAL row is never recognised
TotalLast_never(rows) == FALSE

\* whatever row is last is taken for the TOTAL row
TotalLast_any(rows) == Len(rows) > 0

\* rows and rows[-1][0].upper() == "TOTAL"
TotalLast(rows) == Len(rows) > 0 /\ Upper(rows[Len(rows)][1]) = "TOTAL"

\* get_all_values()[1:]
BelowHeader(sh) == LET all == get_all_values(sh) IN SubSeq(all, 2, Len(all))

\* site_columns = range(2, len(header) - 1)
site_columns(header) == 3..(Len(header) - 1)

\* float(row[col]) if row[col] else 0 raises (ValueError, or IndexError on a
\* row shorter than the header)
CellRaises(row, col) == col > Len(row) \/ (row[col] # "" /\ ~FloatOK(row[col]))

CellValue(row, col) == IF row[col] = "" THEN 0 ELSE Float(row[col])

RECURSIVE col_sum_droplast(_, _)
\* the last row is left out of the sum even when it is no TOTAL row
col_sum_droplast(rows, col) ==
    IF Len(rows) <= 1 THEN 0
    ELSE CellValue(rows[1], col) + col_sum_droplast(Tail(rows), col)

RECURSIVE col_sum(_, _)
\* col_sum = sum(float(row[col]) if row[col] else 0 for row in rows)
col_sum(rows, col) ==
    IF Len(rows) = 0 THEN 0
    ELSE CellValue(rows[1], col) + col_sum(Tail(rows), col)

RECURSIVE SumCols(_, _, _)
\* the sum of col_sum over the columns from..to
SumCols(rows, from, to) ==
    IF from > to THEN 0 ELSE col_sum(rows, from) + SumCols(rows, from + 1, to)

TotalsRaise(header, rows) ==
    \E r \in 1..Len(rows) : \E col \in site_columns(header) : CellRaises(rows[r], col)

\* totals = ["TOTAL", "", col_sum ..., closing_total]
totals(header, rows) ==
    <<"TOTAL", "">>
    \o [k \in 1..Max(Len(header) - 3, 0) |-> FormatNum(col_sum(rows, k + 2))]
    \o <<FormatNum(SumCols(rows, 3, Len(header) - 1))>>

\* the except of update_total_row re-raises what it caught
Leave_propagates(s, logged) ==
    IF logged # ""
    THEN Return(s, [NoRet EXCEPT !.raised = TRUE, !.log = logged])
    ELSE IF loc[s].caller = "add_transaction"
    THEN Return(s, [NoRet EXCEPT !.msg = "Transaction added"])
    ELSE Return(s, NoRet)

\* update_total_row returns to its caller; add_transaction then returns its
\* success message
Leave(s, logged) ==
    IF loc[s].caller = "add_transaction"
    THEN Return(s, [NoRet EXCEPT !.msg = "Transaction added", !.log = logged])
    ELSE Return(s, Log(logged))

update_total_row_call(s) ==
    /\ Enter(s, "update_total_row", <<>>)
    /\ pc' = [pc EXCEPT ![s] = "ut_header"]
    /\ ret' = [ret EXCEPT ![s] = NoRet]
    /\ loc' = [loc EXCEPT ![s] = NoLoc]
    /\ onlyTxns' = FALSE
    /\ utrAlone' = TRUE
    /\ UNCHANGED <<sheet, nTxn>>

\* header = SHEET.row_values(1)
update_total_row_header(s) ==
    /\ pc[s] = "ut_header"
    /\ \E ok \in BOOLEAN :
        IF ~ok
        THEN Fails(s) /\ Leave(s, "Error updating TOTAL row") /\ onlyTxns' = FALSE
        ELSE /\ pc' = [pc EXCEPT ![s] = "ut_rows"]
             /\ loc' = [loc EXCEPT ![s].header = row_values(sheet, 1)]
             /\ UNCHANGED <<ret, call, onlyTxns>>
    /\ UNCHANGED <<sheet, nTxn, utrAlone>>

\* rows = SHEET.get_all_values()[1:]
update_total_row_rows(s) ==
    /\ pc[s] = "ut_rows"
    /\ \E ok \in BOOLEAN :
        IF ~ok
        THEN Fails(s) /\ Leave(s, "Error updating TOTAL row") /\ onlyTxns' = FALSE
        ELSE LET rows == BelowHeader(sheet) IN
             /\ pc' = [pc EXCEPT ![s] = IF TotalLast(rows) THEN "ut_delete" ELSE "ut_append"]
             /\ loc' = [loc EXCEPT ![s].rows = rows]
             /\ UNCHANGED <<ret, call, onlyTxns>>
    /\ UNCHANGED <<sheet, nTxn, utrAlone>>

\* the deleted TOTAL row stays in the in-memory rows (rows = rows[:-1] left out)
update_total_row_delete_stale(s) ==
    /\ pc[s] = "ut_delete"
    /\ \E ok \in BOOLEAN :
        IF ~ok
        THEN /\ Fails(s) /\ Leave(s, "Error updating TOTAL row") /\ onlyTxns' = FALSE
             /\ UNCHANGED sheet
        ELSE /\ sheet' = delete_rows(sheet, Len(loc[s].rows) + 1)
             /\ Wrote(s)
             /\ pc' = [pc EXCEPT ![s] = "ut_append"]
             /\ UNCHANGED <<loc, ret, onlyTxns>>
    /\ UNCHANGED <<nTxn, utrAlone>>

\* SHEET.delete_rows(len(rows) + 1); rows = rows[:-1]
update_total_row_delete(s) ==
    /\ pc[s] = "ut_delete"
    /\ \E ok \in BOOLEAN :
        IF ~ok
        THEN /\ Fails(s) /\ Leave(s, "Error updating TOTAL row") /\ onlyTxns' = FALSE
             /\ UNCHANGED sheet
        ELSE LET rows == loc[s].rows IN
             /\ sheet' = delete_rows(sheet, Len(rows) + 1)
             /\ Wrote(s)
             /\ pc' = [pc EXCEPT ![s] = "ut_append"]
             /\ loc' = [loc EXCEPT ![s].rows = SubSeq(rows, 1, Len(rows) - 1)]
             /\ UNCHANGED <<ret, onlyTxns>>
    /\ UNCHANGED <<nTxn, utrAlone>>

\* the sums, then SHEET.append_row(totals)
update_total_row_append(s) ==
    /\ pc[s] = "ut_append"
    /\ IF TotalsRaise(loc[s].header, loc[s].rows)
       THEN /\ Leave(s, "Error updating TOTAL row")
            /\ onlyTxns' = FALSE
            /\ UNCHANGED <<sheet, call>>
       ELSE \E ok \in BOOLEAN :
            IF ~ok
            THEN /\ Fails(s) /\ Leave(s, "Error updating TOTAL row") /\ onlyTxns' = FALSE
                 /\ UNCHANGED sheet
            ELSE /\ sheet' = append_row(sheet, totals(loc[s].header, loc[s].rows))
                 /\ Wrote(s)
                 /\ Leave(s, "")
                 /\ UNCHANGED onlyTxns
    /\ UNCHANGED <<nTxn, utrAlone>>

update_total_row(s) ==
    \/ update_total_row_call(s)
    \/ update_total_row_header(s)
    \/ update_total_row_rows(s)
    \/ update_total_row_delete(s)
    \/ update_total_row_append(s)

(***************************************************************************)
(* add_transaction                                                          *)
(***************************************************************************)
\* try: total_closing += float(row[i]) / except: continue
ScanValue(row, col) ==
    IF col <= Len(row) /\ FloatOK(row[col]) THEN Float(row[col]) ELSE 0

RECURSIVE ScanRow(_, _, _)
\* for i in range(from - 1, to): one row's share of total_closing
ScanRow(row, from, to) ==
    IF from > to THEN 0 ELSE ScanValue(row, from) + ScanRow(row, from + 1, to)

\* for i in range(2, closing_index), closing_index = len(header)
ScanColumns(row, closing) == ScanRow(row, 3, closing)

RECURSIVE ScanRows(_, _)
\* for row in rows: the running balance before the new amount
ScanRows(rows, closing) ==
    IF Len(rows) = 0 THEN 0
    ELSE ScanColumns(rows[1], closing) + ScanRows(Tail(rows), closing)

\* total_closing = (scan of rows) + amount
total_closing(rows, closing, amount) == ScanRows(rows, closing) + amount

\* new_row = [date, description] + [""] * (closing_index - 2) + [total_closing]
\* new_row[site_col_index - 1] = amount
new_row(date, description, closing, site_col_index, amount, total) ==
    [ <<date, description>> \o Blanks(Max(closing - 2, 0)) \o <<FormatNum(total)>>
        EXCEPT ![site_col_index] = FormatNum(amount) ]

\* the amount is checked before the date
Validate_amount_first(site, date, amount_text) ==
    IF site = "Select Site" \/ site = "" THEN "Please select a valid site"
    ELSE IF ~FloatOK(amount_text) THEN "Amount must be a number"
    ELSE IF ~DateOK(date) THEN "Invalid date format"
    ELSE ""

\* the checks made before any remote call; "" when all pass
Validate(site, date, amount_text) ==
    IF site = "Select Site" \/ site = "" THEN "Please select a valid site"
    ELSE IF ~DateOK(date) THEN "Invalid date format"
    ELSE IF ~FloatOK(amount_text) THEN "Amount must be a number"
    ELSE ""

add_transaction_call(s) ==
    \E date_in \in DateInputs, site_in \in SiteInputs,
       description_in \in DescInputs, amount_in \in AmountInputs :
        LET date        == Strip(date_in)
            site        == Strip(site_in)
            description == Strip(description_in)
            amount_text == Strip(amount_in)
            invalid     == Validate(site, date, amount_text)
        IN  /\ Enter(s, "add_transaction", <<date, site, description, amount_text>>)
            /\ (invalid = "" /\ Contains(row_values(sheet, 1), site)) => nTxn < MaxTxns
            /\ onlyTxns' = (onlyTxns /\ invalid = "")
            /\ IF invalid # ""
               THEN Return(s, Msg(invalid))
               ELSE /\ pc' = [pc EXCEPT ![s] = "at_header"]
                    /\ ret' = [ret EXCEPT ![s] = NoRet]
                    /\ loc' = [loc EXCEPT ![s] =
                                [NoLoc EXCEPT !.site = site, !.date = date,
                                              !.description = description,
                                              !.amount = Float(amount_text)]]
            /\ UNCHANGED <<sheet, nTxn, utrAlone>>

\* the site check made only after the trailing row has been deleted
SiteMissing_late(s) ==
    /\ Return(s, Msg("Site column missing"))
    /\ onlyTxns' = FALSE
    /\ sheet' = delete_rows(sheet, Len(sheet))
    /\ Wrote(s)

\* if site not in header: return "Site column missing"
SiteMissing(s) ==
    /\ Return(s, Msg("Site column missing"))
    /\ onlyTxns' = FALSE
    /\ UNCHANGED <<sheet, call>>

\* header = SHEET.row_values(1), and the site check
add_transaction_header(s) ==
    /\ pc[s] = "at_header"
    /\ \E ok \in BOOLEAN :
        IF ~ok
        THEN /\ Fails(s) /\ Return(s, Msg("Failed to add transaction")) /\ onlyTxns' = FALSE
             /\ UNCHANGED sheet
        ELSE LET header == row_values(sheet, 1) IN
             IF ~Contains(header, loc[s].site)
             THEN SiteMissing(s)
             ELSE /\ pc' = [pc EXCEPT ![s] = "at_rows"]
                  /\ loc' = [loc EXCEPT ![s].header = header]
                  /\ onlyTxns' = (onlyTxns /\ Contains(Sites(header), loc[s].site))
                  /\ UNCHANGED <<sheet, ret, call>>
    /\ UNCHANGED <<nTxn, utrAlone>>

\* rows = SHEET.get_all_values()[1:], the scan, and new_row
add_transaction_rows(s) ==
    /\ pc[s] = "at_rows"
    /\ \E ok \in BOOLEAN :
        IF ~ok
        THEN Fails(s) /\ Return(s, Msg("Failed to add transaction")) /\ onlyTxns' = FALSE
        ELSE LET header         == loc[s].header
                 site_col_index == index(header, loc[s].site) + 1
                 closing        == Len(header)
                 rows           == BelowHeader(sheet)
                 total          == total_closing(rows, closing, loc[s].amount)
             IN  /\ pc' = [pc EXCEPT ![s] = IF TotalLast(rows) THEN "at_delete" ELSE "at_append"]
                 /\ loc' = [loc EXCEPT ![s].rows = rows,
                                       ![s].new_row = new_row(loc[s].date, loc[s].description,
                                                              closing, site_col_index,
                                                              loc[s].amount, total)]
                 /\ UNCHANGED <<ret, call, onlyTxns>>
    /\ UNCHANGED <<sheet, nTxn, utrAlone>>

\* SHEET.delete_rows(len(rows) + 1)
add_transaction_delete(s) ==
    /\ pc[s] = "at_delete"
    /\ \E ok \in BOOLEAN :
        IF ~ok
        THEN /\ Fails(s) /\ Return(s, Msg("Failed to add transaction")) /\ onlyTxns' = FALSE
             /\ UNCHANGED sheet
        ELSE /\ sheet' = delete_rows(sheet, Len(loc[s].rows) + 1)
             /\ Wrote(s)
             /\ pc' = [pc EXCEPT ![s] = "at_append"]
             /\ UNCHANGED <<loc, ret, onlyTxns>>
    /\ UNCHANGED <<nTxn, utrAlone>>

\* SHEET.append_row(new_row), then update_total_row()
add_transaction_append(s) ==
    /\ pc[s] = "at_append"
    /\ \E ok \in BOOLEAN :
        IF ~ok
        THEN /\ Fails(s) /\ Return(s, Msg("Failed to add transaction")) /\ onlyTxns' = FALSE
             /\ UNCHANGED <<sheet, nTxn>>
        ELSE /\ nTxn < MaxTxns
             /\ sheet' = append_row(sheet, loc[s].new_row)
             /\ nTxn' = nTxn + 1
             /\ Wrote(s)
             /\ pc' = [pc EXCEPT ![s] = "ut_header"]
             /\ loc' = [loc EXCEPT ![s].caller = "add_transaction"]
             /\ UNCHANGED <<ret, onlyTxns>>
    /\ UNCHANGED utrAlone

add_transaction(s) ==
    \/ add_transaction_call(s)
    \/ add_transaction_header(s)
    \/ add_transaction_rows(s)
    \/ add_transaction_delete(s)
    \/ add_transaction_append(s)

(***************************************************************************)
(* The application: one user action at a time                               *)
(***************************************************************************)
\* the script run that handled the action ends; the form waits for the next
script_end(s) ==
    /\ pc[s] = "done"
    /\ pc' = [pc EXCEPT ![s] = "idle"]
    /\ ret' = [ret EXCEPT ![s] = NoRet]
    /\ call' = [call EXCEPT ![s] = NoCall]
    /\ UNCHANGED <<sheet, loc, nTxn, onlyTxns, utrAlone>>

Next ==
    \E s \in SingleWriter :
        \/ script_end(s)
        \/ ensure_header(s)
        \/ add_site(s)
        \/ add_transaction(s)
        \/ update_total_row(s)

Spec == Init /\ [][Next]_vars

(***************************************************************************)
(* A worksheet that was also edited by hand: a site cell of a transaction   *)
(* row holds text that float() rejects.  The session is initialised and     *)
(* the form submits transactions; update_total_row also runs on its own.    *)
(***************************************************************************)
DirtySheets ==
    { << <<"Date", "Description", "SiteA", "SiteB", "Closing Balance">>,
         <<"2024-01-01", "rent", " ", "100">> >>,
      << <<"Date", "Description", "SiteA", "SiteB", "Closing Balance">>,
         <<"2024-01-01", "rent", "n/a", "100">>,
         <<"TOTAL", "", "0", "100", "100">> >> }

InitDirty ==
    /\ sheet \in DirtySheets
    /\ pc = [s \in Sessions |-> "idle"]
    /\ loc = [s \in Sessions |-> NoLoc]
    /\ ret = [s \in Sessions |-> NoRet]
    /\ call = [s \in Sessions |-> NoCall]
    /\ nTxn = 0
    /\ onlyTxns = FALSE
    /\ utrAlone = FALSE

NextDirty ==
    \E s \in SingleWriter :
        \/ script_end(s)
        \/ add_transaction(s)
        \/ update_total_row(s)

SpecDirty == InitDirty /\ [][NextDirty]_vars

(***************************************************************************)
(* Two sessions on the same grid: each submits one transaction, and their   *)
(* remote calls interleave freely (nothing in the code serialises them).    *)
(* The grid is the one a first transaction leaves.                          *)
(***************************************************************************)
LedgerTwo ==
    << <<"Date", "Description", "SiteA", "SiteB", "Closing Balance">>,
       <<"2024-01-01", "rent", "100", "", "", "100">>,
       <<"TOTAL", "", "100", "0", "100">> >>

InitTwo ==
    /\ sheet = LedgerTwo
    /\ pc = [s \in Sessions |-> "idle"]
    /\ loc = [s \in Sessions |-> NoLoc]
    /\ ret = [s \in Sessions |-> NoRet]
    /\ call = [s \in Sessions |-> NoCall]
    /\ nTxn = 0
    /\ onlyTxns = TRUE
    /\ utrAlone = FALSE

NextTwo == \E s \in Sessions : add_transaction(s) \/ update_total_row(s)

SpecTwo == InitTwo /\ [][NextTwo]_vars

(***************************************************************************)
(* Vocabulary of the properties                                             *)
(***************************************************************************)
\* the operation name of session s has returned (or raised)
Done(s, name) == pc[s] = "done" /\ call[s].op = name

\* add_transaction returned its success message and no remote call failed
Succeeded(s) ==
    Done(s, "add_transaction") /\ ret[s].msg = "Transaction added" /\ ~call[s].failed

Cell(sh, r, c) == IF r <= Len(sh) /\ c <= Len(sh[r]) THEN sh[r][c] ELSE ""

IsTotalRow(row) == Len(row) > 0 /\ row[1] = "TOTAL"

HeaderOf(sh) == IF Len(sh) = 0 THEN <<>> ELSE sh[1]

\* the rows below the header that are not a TOTAL row
TxnRows(sh) ==
    IF Len(sh) = 0 THEN <<>> ELSE SelectSeq(Tail(sh), LAMBDA row : ~IsTotalRow(row))

\* the number a cell holds, a blank cell counting as zero
Amount(row, c) == IF c <= Len(row) /\ row[c] # "" THEN Float(row[c]) ELSE 0

RECURSIVE SumSeq(_)
SumSeq(seq) == IF Len(seq) = 0 THEN 0 ELSE Head(seq) + SumSeq(Tail(seq))

\* the sum of column c over the transaction rows
ColumnTotal(sh, c) == LET txns == TxnRows(sh) IN SumSeq([r \in 1..Len(txns) |-> Amount(txns[r], c)])

\* the columns strictly between column 2 and the last header cell
SiteColumns(sh) == 3..(Len(HeaderOf(sh)) - 1)

\* the sum of every per-site amount of every transaction row
SiteAmounts(sh) ==
    LET n == Len(HeaderOf(sh)) IN
    SumSeq([k \in 1..Max(n - 3, 0) |-> ColumnTotal(sh, k + 2)])

(***************************************************************************)
(* C1                                                                       *)
(***************************************************************************)
\* C1: from a header with a site column, after add_transaction calls on site
\* columns that all returned the success message, the closing balance written
\* in the last transaction row (its last cell) equals the sum of every
\* per-site amount of all transaction rows.
C1_ClosingBalanceIsSum ==
    \A s \in Sessions :
        (Succeeded(s) /\ onlyTxns) =>
            LET txns == TxnRows(sheet)
                last == txns[Len(txns)]
            IN  last[Len(last)] = FormatNum(SiteAmounts(sheet))

(***************************************************************************)
(* C2                                                                       *)
(***************************************************************************)
TotalRows(sh) == {r \in 1..Len(sh) : IsTotalRow(sh[r])}

\* C2: after an add_transaction that returned the success message with no
\* remote call failing, on a sheet that ensure_header, add_site and
\* add_transaction built, exactly one row starts with TOTAL and it is the
\* last row.
C2_OneTotalRowLast ==
    \A s \in Sessions :
        (Succeeded(s) /\ ~utrAlone) =>
            /\ Cardinality(TotalRows(sheet)) = 1
            /\ IsTotalRow(sheet[Len(sheet)])

\* a second successful add_transaction has replaced the TOTAL row of the first
C2_Witness ==
    \E s \in Sessions :
        /\ Succeeded(s) /\ ~utrAlone
        /\ nTxn = 2
        /\ IsTotalRow(call[s].sheet0[Len(call[s].sheet0)])

(***************************************************************************)
(* C3                                                                       *)
(***************************************************************************)
\* update_total_row ran to its end in the last call of s, no remote call failing
TotalRecomputed(s) ==
    /\ pc[s] = "done"
    /\ ~call[s].failed
    /\ \/ call[s].op = "update_total_row"
       \/ call[s].op = "add_transaction" /\ ret[s].msg = "Transaction added"

\* C3: after update_total_row completes without a remote failure, the last row
\* is the TOTAL row; its cell in every site column is the sum of that column
\* over the transaction rows (blank = 0, the previous TOTAL row left out), and
\* its closing-balance cell is the sum of those per-site totals.
C3_TotalRowSums ==
    \A s \in Sessions :
        TotalRecomputed(s) =>
            LET n == Len(HeaderOf(sheet))
                total == sheet[Len(sheet)]
            IN  /\ IsTotalRow(total)
                /\ \A c \in 3..(n - 1) : Cell(sheet, Len(sheet), c) = FormatNum(ColumnTotal(sheet, c))
                /\ total[Len(total)] =
                       FormatNum(SumSeq([k \in 1..Max(n - 3, 0) |-> ColumnTotal(sheet, k + 2)]))

\* update_total_row on its own replaced a stale TOTAL row by one with non-zero sums
C3_Witness ==
    \E s \in Sessions :
        /\ TotalRecomputed(s)
        /\ call[s].op = "update_total_row"
        /\ call[s].writes = 2
        /\ Len(HeaderOf(sheet)) >= 5
        /\ \E c \in SiteColumns(sheet) : Cell(sheet, Len(sheet), c) \notin {"", "0"}

(***************************************************************************)
(* C4                                                                       *)
(***************************************************************************)
\* the first column of header whose cell is "Closing Balance"
ClosingColumn(header) ==
    CHOOSE c \in 1..Len(header) :
        header[c] = "Closing Balance" /\ \A d \in 1..(c - 1) : header[d] # "Closing Balance"

\* add_site was called with a new, non-empty name on a sheet whose header has
\* a Closing Balance column, and no remote call failed
AddedSite(s) ==
    /\ Done(s, "add_site")
    /\ ~call[s].failed
    /\ Strip(call[s].arg[1]) # ""
    /\ ~Contains(HeaderOf(call[s].sheet0), Strip(call[s].arg[1]))
    /\ Contains(HeaderOf(call[s].sheet0), "Closing Balance")

\* C4: add_site with a new non-empty (trimmed) name inserts exactly one column
\* immediately left of Closing Balance: its header cell is the trimmed name,
\* its other cells are blank, and every cell that existed keeps its value and
\* its order among the cells that existed.
C4_AddSiteInsertsOneColumn ==
    \A s \in Sessions :
        AddedSite(s) =>
            LET before == call[s].sheet0
                col    == ClosingColumn(HeaderOf(before))
            IN  /\ ret[s].msg = "Site added"
                /\ call[s].writes = 1
                /\ Len(sheet) = Len(before)
                /\ Width(sheet) = Width(before) + 1
                /\ Cell(sheet, 1, col) = Strip(call[s].arg[1])
                /\ Cell(sheet, 1, col + 1) = "Closing Balance"
                /\ \A r \in 2..Len(sheet) : Cell(sheet, r, col) = ""
                /\ \A r \in 1..Len(sheet) : \A c \in 1..Width(before) :
                       Cell(sheet, r, IF c < col THEN c ELSE c + 1) = Cell(before, r, c)

\* a site was added to a sheet that held transaction rows and a TOTAL row
C4_Witness ==
    \E s \in Sessions :
        /\ AddedSite(s)
        /\ call[s].arg[1] = " Cafe "
        /\ Len(TxnRows(call[s].sheet0)) >= 1
        /\ IsTotalRow(sheet[Len(sheet)])

(***************************************************************************)
(* C5                                                                       *)
(***************************************************************************)
\* add_site was called with a name whose trimmed form is a header cell (the
\* name has passed the EmptyName check, which comes first), no remote call failing
DuplicateCall(s) ==
    /\ Done(s, "add_site")
    /\ ~call[s].failed
    /\ Strip(call[s].arg[1]) # ""
    /\ Contains(HeaderOf(call[s].sheet0), Strip(call[s].arg[1]))

\* C5: add_site with a (non-empty) name whose trimmed form is already in the
\* header makes no write, leaves the sheet as it was, reports the duplicate and
\* returns the site list of the unchanged header.
C5_DuplicateSiteNoWrite ==
    \A s \in Sessions :
        DuplicateCall(s) =>
            LET header == HeaderOf(call[s].sheet0) IN
            /\ call[s].writes = 0
            /\ sheet = call[s].sheet0
            /\ ret[s].msg = "Site already exists"
            /\ ret[s].hasSites
            /\ ret[s].sites = SubSeq(header, 3, Len(header) - 1)

\* the site just added is offered again, untrimmed
C5_Witness ==
    \E s \in Sessions :
        /\ DuplicateCall(s)
        /\ call[s].arg[1] = " Cafe "
        /\ ret[s].sites = <<"SiteA", "SiteB", "Cafe">>

(***************************************************************************)
(* C6                                                                       *)
(***************************************************************************)
ValidationFailures ==
    {"Please select a valid site", "Invalid date format",
     "Amount must be a number", "Site column missing"}

\* the last call of s ended in a validation failure
Rejected(s) ==
    \/ Done(s, "add_transaction") /\ ret[s].msg \in ValidationFailures
    \/ Done(s, "add_site") /\ ret[s].msg = "Enter a site name first"

\* C6: an add_transaction that ends in NoSiteSelected, InvalidDate,
\* InvalidAmount or UnknownSite, and an add_site that ends in EmptyName, has
\* made no mutating remote call and leaves the sheet as it found it; the date
\* "2024-13-01" is rejected with InvalidDate.
C6_ValidationFailureNoWrite ==
    /\ Validate("SiteA", "2024-13-01", "100") = "Invalid date format"
    /\ \A s \in Sessions :
        Rejected(s) => (call[s].writes = 0 /\ sheet = call[s].sheet0)

\* a site missing from the header is rejected on a sheet that ends in a TOTAL row
C6_Witness ==
    \E s \in Sessions :
        /\ Rejected(s)
        /\ ret[s].msg = "Site column missing"
        /\ Len(sheet) > 1
        /\ IsTotalRow(sheet[Len(sheet)])

(***************************************************************************)
(* C7                                                                       *)
(***************************************************************************)
\* C7: no failure of a remote call ever propagates out of ensure_header,
\* add_site, add_transaction or update_total_row to the caller.
C7_NoRemoteErrorEscapes == \A s \in Sessions : ~ret[s].raised

(***************************************************************************)
(* C8                                                                       *)
(***************************************************************************)
\* C8: ensure_header, no remote call failing: on a sheet without rows it makes
\* the default header row 1; on a sheet whose first row is blank or whitespace
\* it makes row 1 the default header; on any other sheet it writes nothing.
\* At most one write, and a second run finds a non-blank row 1.
C8_EnsureHeader ==
    \A s \in Sessions :
        (Done(s, "ensure_header") /\ ~call[s].failed) =>
            LET before == call[s].sheet0 IN
            /\ call[s].writes <= 1
            /\ Len(sheet) > 0 /\ ~AllBlank(sheet[1])
            /\ IF Len(before) = 0
               THEN sheet = <<default_header>>
               ELSE IF AllBlank(before[1])
               THEN sheet[1] = default_header /\ Tail(sheet) = Tail(before)
               ELSE sheet = before /\ call[s].writes = 0

(***************************************************************************)
(* C9                                                                       *)
(***************************************************************************)
\* C9: the row a successful add_transaction appended has as many cells as the
\* header: date, description, the amount under the selected site, blanks under
\* the other sites, and the closing balance under Closing Balance.
C9_NewRowShape ==
    \A s \in Sessions :
        Succeeded(s) =>
            LET header == HeaderOf(sheet)
                row    == sheet[Len(sheet) - 1]
                a      == call[s].arg
            IN  /\ Len(row) = Len(header)
                /\ row[1] = a[1]
                /\ row[2] = a[3]
                /\ \A c \in SiteColumns(sheet) :
                       row[c] = IF header[c] = a[2] THEN FormatNum(Float(a[4])) ELSE ""
                /\ FloatOK(row[Len(header)])

(***************************************************************************)
(* C10                                                                      *)
(***************************************************************************)
\* the site names of the sheet: the header cells between column 2 and the last
SiteList(sh) == LET header == HeaderOf(sh) IN SubSeq(header, 3, Len(header) - 1)

\* no header yet, or Date, Description, distinct non-empty sites, Closing Balance
WellFormed(sh) ==
    LET header == HeaderOf(sh)
        names  == SiteList(sh)
    IN  \/ Len(header) = 0
        \/ /\ Len(header) >= 3
           /\ header[1] = "Date"
           /\ header[2] = "Description"
           /\ header[Len(header)] = "Closing Balance"
           /\ \A i \in 1..Len(names) : names[i] # ""
           /\ \A i, j \in 1..Len(names) : names[i] = names[j] => i = j

\* C10: under ensure_header, add_site and add_transaction run one at a time,
\* a header of distinct non-empty site names ending in Closing Balance stays
\* one, and every step leaves the site list as it was or extends it by one
\* name at its end: no site column is removed or moved.
C10_SiteColumnsStable ==
    [][ (WellFormed(sheet) /\ ~utrAlone') =>
            /\ WellFormed(sheet')
            /\ \/ SiteList(sheet') = SiteList(sheet)
               \/ /\ Len(SiteList(sheet')) = Len(SiteList(sheet)) + 1
                  /\ SubSeq(SiteList(sheet'), 1, Len(SiteList(sheet))) = SiteList(sheet) ]_vars

\* a third site has been added behind the two the header had
C10_Witness ==
    \E s \in Sessions :
        /\ Done(s, "add_site")
        /\ ret[s].msg = "Site added"
        /\ ~utrAlone
        /\ SiteList(call[s].sheet0) = <<"SiteA", "SiteB">>
        /\ SiteList(sheet) = <<"SiteA", "SiteB", "Cafe">>
        /\ Len(TxnRows(sheet)) >= 1

(***************************************************************************)
(* C11                                                                      *)
(***************************************************************************)
\* the rows below the header at the start of the call of s, a trailing TOTAL
\* row left out
TrueRowsAtCall(s) ==
    LET sh0  == call[s].sheet0
        rows == BelowHeader(sh0)
    IN  IF TotalLast(rows) THEN BelowHeader(delete_rows(sh0, Len(sh0))) ELSE rows

\* C11: the closing balance a successful add_transaction writes is the scan of
\* the true transaction rows plus the new amount: a trailing TOTAL row present
\* when the call starts contributes nothing, so the balance is the one the call
\* writes on the same sheet without that TOTAL row.
C11_TotalRowStripped ==
    \A s \in Sessions :
        Succeeded(s) =>
            LET header == HeaderOf(call[s].sheet0)
                row    == sheet[Len(sheet) - 1]
            IN  row[Len(row)] =
                    FormatNum(total_closing(TrueRowsAtCall(s), Len(header),
                                            Float(call[s].arg[4])))

(***************************************************************************)
(* C12                                                                      *)
(***************************************************************************)
\* a site cell of a transaction row is neither blank nor a number
HasTextCell(sh) ==
    \E r \in 2..Len(sh) : \E c \in SiteColumns(sh) :
        ~IsTotalRow(sh[r]) /\ Cell(sh, r, c) # "" /\ ~FloatOK(Cell(sh, r, c))

\* the number a cell holds, a blank or non-numeric cell counting as zero
AmountOrZero(row, c) == IF c <= Len(row) /\ FloatOK(row[c]) THEN Float(row[c]) ELSE 0

\* the sum of column c over the transaction rows, text counting as zero
LenientTotal(sh, c) ==
    LET txns == TxnRows(sh) IN SumSeq([r \in 1..Len(txns) |-> AmountOrZero(txns[r], c)])

\* C12: on a sheet with a non-blank, non-numeric site cell (whitespace
\* included), update_total_row with no remote call failing still appends a
\* TOTAL row as the last row, and its sums count that cell as 0.
C12_TextCellCountsZero ==
    \A s \in Sessions :
        (TotalRecomputed(s) /\ HasTextCell(sheet)) =>
            LET n == Len(HeaderOf(sheet)) IN
            /\ IsTotalRow(sheet[Len(sheet)])
            /\ \A c \in SiteColumns(sheet) :
                   Cell(sheet, Len(sheet), c) = FormatNum(LenientTotal(sheet, c))
            /\ Cell(sheet, Len(sheet), n) =
                   FormatNum(SumSeq([k \in 1..Max(n - 3, 0) |-> LenientTotal(sheet, k + 2)]))

(***************************************************************************)
(* C13                                                                      *)
(***************************************************************************)
\* add_transaction appended its row and a remote call of the update_total_row
\* that follows failed
PartialFailure(s) ==
    /\ Done(s, "add_transaction")
    /\ call[s].failed
    /\ ret[s].log = "Error updating TOTAL row"

\* the sheet at the start of the call of s without its trailing TOTAL row
SheetWithoutTotal(s) ==
    LET sh0 == call[s].sheet0 IN
    IF TotalLast(BelowHeader(sh0)) THEN delete_rows(sh0, Len(sh0)) ELSE sh0

\* C13: when the row append of add_transaction succeeds and a remote call of
\* the total recomputation fails, nothing is raised to the caller and
\* add_transaction returns its success message; the appended row stays, as the
\* last row, on top of the rows that were there (no rollback, no further
\* write), and no TOTAL row follows it: the TOTAL row is missing.
C13_PartialFailureKept ==
    \A s \in Sessions :
        PartialFailure(s) =>
            LET base == SheetWithoutTotal(s)
                a    == call[s].arg
                row  == sheet[Len(sheet)]
            IN  /\ ~ret[s].raised
                /\ ret[s].msg = "Transaction added"
                /\ Len(sheet) = Len(base) + 1
                /\ SubSeq(sheet, 1, Len(base)) = base
                /\ row[1] = a[1] /\ row[2] = a[3]
                /\ \A r \in 2..Len(sheet) : ~IsTotalRow(sheet[r])
                /\ call[s].writes = Len(call[s].sheet0) - Len(base) + 1

\* the TOTAL row of the first transaction was deleted, the second row was
\* appended, and the recomputation failed
C13_Witness ==
    \E s \in Sessions :
        /\ PartialFailure(s)
        /\ nTxn = 2
        /\ IsTotalRow(call[s].sheet0[Len(call[s].sheet0)])
        /\ call[s].writes = 2

(***************************************************************************)
(* C14                                                                      *)
(***************************************************************************)
\* both sessions ran add_transaction and both returned the success message,
\* no remote call failing
BothSucceeded == \A s \in Sessions : Succeeded(s)

\* the closing balance of the last transaction row counts the new amount of
\* one session only: it is the balance that session computes from the grid
\* the two started on
OmitsAnAmount(sh) ==
    LET txns == TxnRows(sh)
        last == txns[Len(txns)]
    IN  /\ Len(txns) > 0
        /\ \E s \in Sessions :
               last[Len(last)] =
                   FormatNum(total_closing(BelowHeader(LedgerTwo), Len(HeaderOf(LedgerTwo)),
                                           Float(call[s].arg[4])))

\* the TOTAL row or running-balance invariant is broken: not exactly one TOTAL
\* row, or a TOTAL row that is not last, or fewer transaction rows than the
\* grid had plus the two appended, or a last closing balance missing an amount
Corrupted(sh) ==
    \/ Cardinality(TotalRows(sh)) # 1
    \/ ~IsTotalRow(sh[Len(sh)])
    \/ Len(TxnRows(sh)) < Len(TxnRows(LedgerTwo)) + 2
    \/ OmitsAnAmount(sh)

\* the two calls ran one after the other
OneAfterTheOther == \A s \in Sessions : call[s].alone

\* C14: two sessions run add_transaction on the same grid and both return
\* success.  With their remote calls interleaved a corrupted grid is reachable
\* (C14_Witness: a transaction row deleted, C14_WitnessTwoTotals, and
\* C14_WitnessOmitted); it is the interleaving that corrupts: when one call
\* starts only after the other has returned, the grid is not corrupted.
C14_CorruptedOnlyInterleaved ==
    (BothSucceeded /\ Corrupted(sheet)) => ~OneAfterTheOther

\* both calls, on a site column, returned success and a transaction row has
\* been deleted
C14_Witness ==
    /\ BothSucceeded
    /\ ~OneAfterTheOther
    /\ \A s \in Sessions : call[s].arg[2] = "SiteA"
    /\ Len(TxnRows(sheet)) < Len(TxnRows(LedgerTwo)) + 2

\* both calls returned success and the grid holds two TOTAL rows
C14_WitnessTwoTotals ==
    /\ BothSucceeded
    /\ Cardinality(TotalRows(sheet)) > 1

\* both calls returned success, both rows are on the grid under one last
\* TOTAL row, and the last closing balance misses the other amount
C14_WitnessOmitted ==
    /\ BothSucceeded
    /\ Cardinality(TotalRows(sheet)) = 1
    /\ IsTotalRow(sheet[Len(sheet)])
    /\ Len(TxnRows(sheet)) = Len(TxnRows(LedgerTwo)) + 2
    /\ OmitsAnAmount(sheet)

(***************************************************************************)
(* C15                                                                      *)
(***************************************************************************)
\* the (trimmed) arguments a = <<date, site, description, amount_text>>
NoSite(a)     == a[2] = "Select Site" \/ a[2] = ""
BadDate(a)    == ~DateOK(a[1])
BadAmount(a)  == ~FloatOK(a[4])

\* C15: add_transaction reports the first failing check in the order site,
\* date, amount, site-in-header: NoSiteSelected whatever the date and amount
\* are; else InvalidDate whatever the amount is; else InvalidAmount whether or
\* not the header has the site; UnknownSite only when the first three checks
\* pass.  The first three are returned by the step that starts the call, before
\* any remote read; UnknownSite right after the header read.
C15_ValidationOrder ==
    /\ Validate("", "2024-13-01", "abc") = "Please select a valid site"
    /\ [][ \A s \in Sessions :
            (pc[s] # "done" /\ pc'[s] = "done" /\ call'[s].op = "add_transaction") =>
                LET a == call'[s].arg
                    m == ret'[s].msg
                IN  /\ NoSite(a) => (m = "Please select a valid site" /\ Idle(s))
                    /\ (~NoSite(a) /\ BadDate(a)) => (m = "Invalid date format" /\ Idle(s))
                    /\ (~NoSite(a) /\ ~BadDate(a) /\ BadAmount(a)) =>
                           (m = "Amount must be a number" /\ Idle(s))
                    /\ m = "Site column missing" =>
                           /\ ~NoSite(a) /\ ~BadDate(a) /\ ~BadAmount(a)
                           /\ pc[s] = "at_header"
                           /\ ~Contains(row_values(sheet, 1), a[2])
                    /\ Idle(s) => call'[s].writes = 0 /\ ~call'[s].failed /\ sheet' = sheet
         ]_vars

\* an unparsable amount is reported although the site is not in the header
\* either
C15_Witness ==
    \E s \in Sessions :
        /\ Done(s, "add_transaction")
        /\ call[s].arg = <<"2024-01-01", "Cafe", "rent", "abc">>
        /\ ret[s].msg = "Amount must be a number"
        /\ ~Contains(HeaderOf(sheet), "Cafe")

\* no site is selected, and the date and the amount are unparsable too
C15_WitnessNoSite ==
    \E s \in Sessions :
        /\ Done(s, "add_transaction")
        /\ call[s].arg = <<"2024-13-01", "Select Site", "rent", "abc">>
        /\ ret[s].msg = "Please select a valid site"

(***************************************************************************)
(* C16                                                                      *)
(***************************************************************************)
\* new is old, or old with one blank cell inserted
SameOrWidened(old, new) ==
    \/ new = old
    \/ \E c \in 1..(Len(old) + 1) :
           new = TrimRow(SubSeq(old, 1, c - 1) \o <<"">> \o SubSeq(old, c, Len(old)))

\* sh without its row r
WithoutRow(sh, r) == SubSeq(sh, 1, r - 1) \o SubSeq(sh, r + 1, Len(sh))

\* C16: under single-writer use no step of ensure_header, add_site,
\* add_transaction or update_total_row deletes, reorders or overwrites a
\* transaction row: the transaction rows before the step are a prefix of those
\* after it (up to the blank cell add_site inserts), and a step that removes a
\* row removes a row whose first cell is TOTAL.
C16_TransactionRowsAppendOnly ==
    [][ LET before == TxnRows(sheet)
            after  == TxnRows(sheet')
        IN  /\ Len(after) >= Len(before)
            /\ \A i \in 1..Len(before) : SameOrWidened(before[i], after[i])
            /\ Len(sheet') < Len(sheet) =>
                   \E r \in 1..Len(sheet) :
                       IsTotalRow(sheet[r]) /\ sheet' = WithoutRow(sheet, r)
      ]_vars

\* a second transaction has been added after a site column was inserted into
\* the first: the TOTAL row was deleted, both transaction rows are there
C16_Witness ==
    \E s \in Sessions :
        /\ Succeeded(s)
        /\ IsTotalRow(call[s].sheet0[Len(call[s].sheet0)])
        /\ Len(TxnRows(sheet)) = 2
        /\ Contains(HeaderOf(sheet), "Cafe")
        /\ TxnRows(sheet)[1] = <<"2024-01-01", "rent", "100", "", "", "", "100">>

(***************************************************************************)
(* C17                                                                      *)
(***************************************************************************)
\* the header texts of the columns that are no site column
NonSiteHeaders == {"Date", "Description", "Closing Balance"}

\* C17: add_transaction called with the header text of a non-site column as
\* its site (the other checks passing, no remote call failing) is rejected as
\* UnknownSite and writes nothing; a successful add_transaction has written
\* its amount into a site column, never into column 1, column 2 or the
\* Closing Balance column.
C17_OnlySiteColumns ==
    \A s \in Sessions :
        /\ (/\ Done(s, "add_transaction")
            /\ ~call[s].failed
            /\ call[s].arg[2] \in NonSiteHeaders
            /\ ~BadDate(call[s].arg) /\ ~BadAmount(call[s].arg))
               => /\ ret[s].msg = "Site column missing"
                  /\ call[s].writes = 0
                  /\ sheet = call[s].sheet0
        /\ Succeeded(s) =>
               LET header == HeaderOf(call[s].sheet0) IN
               index(header, call[s].arg[2]) + 1 \in site_columns(header)

(***************************************************************************)
(* C18                                                                      *)
(***************************************************************************)
\* the TOTAL row that belongs to the transaction rows of sh
CurrentTotals(sh) ==
    LET n == Len(HeaderOf(sh)) IN
    <<"TOTAL", "">>
    \o [k \in 1..Max(n - 3, 0) |-> FormatNum(ColumnTotal(sh, k + 2))]
    \o <<FormatNum(SiteAmounts(sh))>>

\* sh is a sheet as a complete update_total_row leaves it: a header, then
\* transaction rows only, then their TOTAL row
TotalIsCurrent(sh) ==
    /\ Len(sh) >= 2
    /\ sh[Len(sh)] = CurrentTotals(sh)
    /\ \A r \in 2..(Len(sh) - 1) : ~IsTotalRow(sh[r])

\* C18: on a sheet with a header, update_total_row (no remote call failing,
\* site cells blank or numeric) leaves the transaction rows under their TOTAL
\* row; called again on the sheet it left, it deletes the TOTAL row it finds
\* last and appends an identical one: the sheet is the same after the second
\* call as after the first, and has no more rows.
C18_UpdateTotalRowIdempotent ==
    \A s \in Sessions :
        (Done(s, "update_total_row") /\ ~call[s].failed /\ Len(call[s].sheet0) >= 1) =>
            /\ TotalIsCurrent(sheet)
            /\ TotalIsCurrent(call[s].sheet0) =>
                   /\ sheet = call[s].sheet0
                   /\ call[s].writes = 2

\* update_total_row was called again after a transaction with a non-zero
\* amount: after the second call the sheet is the one it started on
C18_Witness ==
    \E s \in Sessions :
        /\ Done(s, "update_total_row")
        /\ ~call[s].failed
        /\ TotalIsCurrent(call[s].sheet0)
        /\ Len(TxnRows(sheet)) >= 1
        /\ \E c \in SiteColumns(sheet) : Cell(sheet, Len(sheet), c) \notin {"", "0"}

====
